---- MODULE Spec2Model ----
(***************************************************************************)
(* Time-ordered dual-graph cascades of py_brainmodels:                     *)
(*   run_ltm.py  linear_threshold / _diffuse_all / _diffuse_one_round      *)
(*   run_sir.py  SIR_model        / _diffuse_all / _diffuse_one_round      *)
(*                                                                         *)
(* G is the topology graph, L the distance graph.  A run is one call of an *)
(* entry point; one action is the entry point up to the round loop, and    *)
(* one action is one iteration of the `while True` loop of _diffuse_all,   *)
(* the call of _diffuse_one_round included.                                *)
(*                                                                         *)
(* Numbers.  np.divide yields IEEE doubles: x/0 is inf, 0/0 is nan and no  *)
(* exception is raised.  A double is modelled as [k, v] with k one of      *)
(* "num", "inf", "nan"; on the weights used here every quotient is an      *)
(* integer, so v is exact.  Probabilities and thresholds are fractions     *)
(* <<numerator, denominator>> compared by cross multiplication.            *)
(***************************************************************************)
EXTENDS Integers, Sequences, FiniteSets, TLC

VARIABLES
    mode,        \* "ltm" (run_ltm.py) or "sir" (run_sir.py)
    GKind,       \* class of G: "Graph", "DiGraph", "MultiGraph", "MultiDiGraph"
    LKind,       \* class of L
    LNodes,      \* len(L.nodes)
    GW,          \* G.edges[u, v]['weight'] per node pair, Absent: no edge
    LW,          \* L.edges[u, v]['weight'] per node pair, Absent: the lookup raises
    adjAsc,      \* adjacency dicts of G iterate in ascending (TRUE) or descending order
    seeds,       \* the seeds argument
    threshold,   \* the threshold argument of linear_threshold
    nodeBeta,    \* G.node[n]['beta'] per node, AbsentFrac: no such attribute
    gamma,       \* the module global `gamma` read by run_sir._diffuse_all
    pc,          \* "call", "loop", "returned", "returnedNone", "raised",
                 \* "reinvoked"
    error,       \* the exception that ended the run, "" if none
    A,           \* the Frontier list
    time,        \* the global clock of _diffuse_all
    i_nodes,     \* the accumulated activation records
    r,           \* the accumulated removed nodes (run_sir)
    rounds,      \* number of calls of _diffuse_one_round so far
    last         \* what the most recent call of _diffuse_one_round did

vars == <<mode, GKind, LKind, LNodes, GW, LW, adjAsc, seeds, threshold, nodeBeta,
          gamma, pc, error, A, time, i_nodes, r, rounds, last>>

inputs == <<mode, GKind, LKind, LNodes, GW, LW, adjAsc, seeds, threshold, nodeBeta>>

-----------------------------------------------------------------------------
(* Bounds of the model *)

MaxSeeds == 2
MaxRounds == 4

\* The nodes of G, added in this order before any edge; len(G.nodes)
Nodes == {1, 2, 3}
NumNodes == Cardinality(Nodes)
Pairs == {e \in SUBSET Nodes : Cardinality(e) = 2}

\* No edge (GW), or a weight lookup that raises KeyError (LW): the edge or
\* its 'weight' attribute is missing.
Absent == -1

\* <<G weight, L weight>> of an edge of G.  The quotients L/G cover: raises,
\* nan (0/0), inf (2/0), 0, 1, 2 (as 2/1 and as 4/2) and 4.
EdgeWeights ==
    {<<1, Absent>>, <<0, 0>>, <<0, 2>>, <<1, 0>>, <<2, 2>>, <<1, 2>>, <<2, 4>>, <<1, 4>>}

AbsentFrac == <<-1, 1>>
Thresholds == {<<-1, 2>>, <<1, 20>>, <<1, 2>>, <<1, 1>>, <<3, 2>>}
Betas == {<<1, 2>>, <<3, 2>>}
Gammas == {<<0, 1>>, <<1, 2>>, <<1, 1>>}
\* values of np.random.random_sample(), which lies in [0, 1)
Samples == {<<0, 1>>, <<1, 2>>}
\* the module global `steps`: Absent (never assigned), 0 or 1
StepsValues == {Absent, 0, 1}

-----------------------------------------------------------------------------
(* Doubles *)

Num(n) == [k |-> "num", v |-> n]
Inf == [k |-> "inf", v |-> 0]
NaN == [k |-> "nan", v |-> 0]

Divide(l, g) ==
    IF g = 0 THEN (IF l = 0 THEN NaN ELSE Inf) ELSE Num(l \div g)

FLt(a, b) ==
    /\ a.k # "nan"
    /\ b.k # "nan"
    /\ \/ a.k = "num" /\ b.k = "num" /\ a.v < b.v
       \/ a.k = "num" /\ b.k = "inf"

FLe(a, b) ==
    /\ a.k # "nan"
    /\ b.k # "nan"
    /\ (FLt(a, b) \/ a = b)

FAddWrong(a, b) ==
    IF a.k = "nan" \/ b.k = "nan" THEN NaN
    ELSE IF a.k = "inf" \/ b.k = "inf" THEN Inf
    ELSE Num(a.v - b.v)

FAdd(a, b) ==
    IF a.k = "nan" \/ b.k = "nan" THEN NaN
    ELSE IF a.k = "inf" \/ b.k = "inf" THEN Inf
    ELSE Num(a.v + b.v)

\* p < q on fractions with positive denominators
FracLt(p, q) == p[1] * q[2] < q[1] * p[2]

-----------------------------------------------------------------------------
(* Sequences and sets *)

Range(s) == {s[i] : i \in 1..Len(s)}

RECURSIVE SetToSeq(_)
\* iteration order of a Python set of small ints: ascending
SetToSeq(S) ==
    IF S = {} THEN <<>>
    ELSE LET m == CHOOSE x \in S : \A y \in S : x <= y
         IN <<m>> \o SetToSeq(S \ {m})

RECURSIVE SetToSeqDesc(_)
SetToSeqDesc(S) ==
    IF S = {} THEN <<>>
    ELSE LET m == CHOOSE x \in S : \A y \in S : x >= y
         IN <<m>> \o SetToSeqDesc(S \ {m})

InsertAt(s, i, x) == SubSeq(s, 1, i - 1) \o <<x>> \o SubSeq(s, i, Len(s))

\* list.remove(x): drops the first occurrence
RemoveFirst(s, x) ==
    LET i == CHOOSE j \in 1..Len(s) : s[j] = x /\ \A h \in 1..(j - 1) : s[h] # x
    IN SubSeq(s, 1, i - 1) \o SubSeq(s, i + 1, Len(s))

IsDupFree(s) == \A i, j \in 1..Len(s) : i # j => s[i] # s[j]

-----------------------------------------------------------------------------
(* The graphs *)

HasEdge(u, v) == u # v /\ u \in Nodes /\ v \in Nodes /\ GW[{u, v}] # Absent

NbrSet(u) == {v \in Nodes : HasEdge(u, v)}

neighborsDescending(u) == SetToSeqDesc(NbrSet(u))

\* G.neighbors(u): the keys of the adjacency dict of u, in its iteration order
neighbors(u) == IF adjAsc THEN SetToSeq(NbrSet(u)) ELSE SetToSeqDesc(NbrSet(u))

degree(u) == Cardinality(NbrSet(u))

\* L.edges[u, v]['weight'] raises: no such edge or attribute (KeyError), or
\* L is a multigraph, whose edge view takes (u, v, key) (ValueError)
WeightRaises(u, v) ==
    \/ LKind \in {"MultiGraph", "MultiDiGraph"}
    \/ LW[{u, v}] = Absent

\* np.divide(L.edges[u, v]['weight'], G.edges[u, v]['weight'])
EdgeTau(u, v) == Divide(LW[{u, v}], GW[{u, v}])

-----------------------------------------------------------------------------
(* Candidate list of a round: run_ltm.py 106-114, run_sir.py 96-106 *)

\* Where binary insertion puts z in P[lo+1 .. hi] (list.sort on a short
\* list: an insertion sort driven by `<` on the keys alone)
RECURSIVE Bisect(_, _, _, _)
Bisect(P, z, lo, hi) ==
    IF lo >= hi THEN lo
    ELSE LET p == (lo + hi) \div 2
         IN IF FLt(z[2], P[p + 1][2]) THEN Bisect(P, z, lo, p)
            ELSE Bisect(P, z, p + 1, hi)

\* taus.append(z); taus = sorted(taus, key = lambda x: x[1]).  P is the
\* result of the previous such step, so it is already a non-descending run:
\* the sort leaves the list alone when z is not below the last key, and
\* otherwise inserts z by binary search.  Equal keys keep their order.
SortedAppend(P, z) ==
    IF P = <<>> \/ ~FLt(z[2], P[Len(P)][2]) THEN Append(P, z)
    ELSE InsertAt(P, Bisect(P, z, 0, Len(P)) + 1, z)

\* A candidate loop without the `nb not in A` test of line 108
RECURSIVE TausLoopNoFilter(_, _, _, _, _)
TausLoopNoFilter(nbs, i, last_active, Acur, taus) ==
    IF i > Len(nbs) THEN taus
    ELSE LET nb == nbs[i]
         IN IF WeightRaises(last_active, nb)
            THEN TausLoopNoFilter(nbs, i + 1, last_active, Acur, taus)
            ELSE TausLoopNoFilter(nbs, i + 1, last_active, Acur,
                                  SortedAppend(taus, <<nb, EdgeTau(last_active, nb)>>))

\* run_ltm.py 107-114, run_sir.py 99-106: the loop over nbs from position i on
RECURSIVE TausLoop(_, _, _, _, _)
TausLoop(nbs, i, last_active, Acur, taus) ==
    IF i > Len(nbs) THEN taus
    ELSE LET nb == nbs[i]
         IN IF nb \in Range(Acur) \/ WeightRaises(last_active, nb)
            THEN TausLoop(nbs, i + 1, last_active, Acur, taus)
            ELSE TausLoop(nbs, i + 1, last_active, Acur,
                          SortedAppend(taus, <<nb, EdgeTau(last_active, nb)>>))

CandidateTaus(Acur, last_active) ==
    TausLoop(neighbors(last_active), 1, last_active, Acur, <<>>)

\* actives = list(set(G.neighbors(targ)).intersection(set(A)))
Actives(targ, Acur) == SetToSeq(NbrSet(targ) \cap Range(Acur))

-----------------------------------------------------------------------------
(* run_ltm.py *)

\* G[f][to]['influence'] as linear_threshold initialised it: G.edges() yields
\* each edge once as (u, v) with u the endpoint met first in node order
\* (ascending here), and the edge gets 1.0 / deg[v]
influence(f, to) == <<1, degree(IF f < to THEN to ELSE f)>>

FracAdd(p, q) == <<p[1] * q[2] + q[1] * p[2], p[2] * q[2]>>

RECURSIVE influence_sum(_, _, _)
influence_sum(froms, i, to) ==
    IF i > Len(froms) THEN <<0, 1>>
    ELSE FracAdd(influence(froms[i], to), influence_sum(froms, i + 1, to))

\* Every active neighbour counted, whatever its own tau
TrueActivesAll(actives, targ, tau) ==
    SelectSeq(actives, LAMBDA a : TRUE)

\* run_ltm.py 117-121: the active neighbours of targ that arrived in time
TrueActives(actives, targ, tau) ==
    SelectSeq(actives, LAMBDA a : FLe(EdgeTau(a, targ), tau))

\* run_ltm.py 115-133: evaluate the candidates from position i on
RECURSIVE LtmEval(_, _, _)
LtmEval(taus, i, Acur) ==
    IF i > Len(taus) THEN [kind |-> "stall", evaluated |-> <<>>]
    ELSE LET targ == taus[i][1]
             tau == taus[i][2]
             actives == Actives(targ, Acur)
         IN IF \E a \in Range(actives) : WeightRaises(a, targ)
            THEN [kind |-> "raise", evaluated |-> <<targ>>]
            ELSE LET true_actives == TrueActives(actives, targ, tau)
                 IN IF ~FracLt(influence_sum(true_actives, 1, targ), threshold)
                    THEN [kind |-> "activate", evaluated |-> <<targ>>, targ |-> targ,
                          tau |-> tau, true_actives |-> true_actives]
                    ELSE LET rest == LtmEval(taus, i + 1, Acur)
                         IN [rest EXCEPT !.evaluated = <<targ>> \o @]

Records(true_actives, targ, t) ==
    [j \in 1..Len(true_actives) |-> <<true_actives[j], targ, t>>]

IsMulti(kind) == kind \in {"MultiGraph", "MultiDiGraph"}
IsDirected(kind) == kind \in {"DiGraph", "MultiDiGraph"}

\* run_ltm.py 53-82: the exception linear_threshold raises before the
\* diffusion, "" if none
LtmValidation ==
    IF IsMulti(GKind) THEN "multiedges"
    ELSE IF NumNodes # LNodes THEN "dimensions"
    ELSE IF IsDirected(GKind) \/ IsDirected(LKind) THEN "undirected"
    ELSE IF \E j \in 1..Len(seeds) : seeds[j] \notin Nodes THEN "seed"
    ELSE IF FracLt(<<1, 1>>, threshold) THEN "threshold"
    ELSE ""

NoRound ==
    [pivot |-> 0, taus |-> <<>>, evaluated |-> <<>>, activated |-> <<>>,
     records |-> <<>>, preA |-> <<>>, preTime |-> Num(0), eventp |-> AbsentFrac,
     removed |-> <<>>, postLoopA |-> <<>>, preR |-> <<>>]

\* run_ltm.py 11-88: linear_threshold up to the call of _diffuse_all, whose
\* first two statements set i_nodes and time
linear_threshold ==
    /\ pc = "call"
    /\ mode = "ltm"
    /\ IF LtmValidation # ""
       THEN /\ pc' = "raised"
            /\ error' = LtmValidation
            /\ UNCHANGED A
       ELSE \E steps \in StepsValues :
            /\ A' = seeds
            /\ pc' = IF steps = Absent THEN "raised"
                     ELSE IF steps <= 0 THEN "loop" ELSE "returnedNone"
            /\ error' = IF steps = Absent THEN "NameError" ELSE ""
    /\ UNCHANGED <<inputs, gamma, time, i_nodes, r, rounds, last>>

\* A round step that differs from the code's on the stall path alone: it
\* drops the pivot from the list it was given before reporting the stall
diffuse_one_round_popping(Acur, t) ==
    IF Acur = <<>>
    THEN [kind |-> "raise", error |-> "IndexError", A |-> Acur, i_edges |-> <<>>,
          tau |-> Num(0), seen |-> [NoRound EXCEPT !.preTime = t]]
    ELSE LET last_active == Acur[Len(Acur)]
             taus == CandidateTaus(Acur, last_active)
             res == LtmEval(taus, 1, Acur)
             seen == [NoRound EXCEPT !.pivot = last_active, !.taus = taus,
                                     !.evaluated = res.evaluated, !.preA = Acur,
                                     !.preTime = t, !.postLoopA = Acur]
         IN CASE res.kind = "raise" ->
                   [kind |-> "raise", error |-> "KeyError weight", A |-> Acur,
                    i_edges |-> <<>>, tau |-> Num(0), seen |-> seen]
              [] res.kind = "stall" ->
                   [kind |-> "stall", error |-> "", A |-> SubSeq(Acur, 1, Len(Acur) - 1),
                    i_edges |-> <<>>, tau |-> Num(0), seen |-> seen]
              [] res.kind = "activate" ->
                   LET i_edges == Records(res.true_actives, res.targ, FAdd(t, res.tau))
                   IN [kind |-> "activate", error |-> "",
                       A |-> Append(Acur, res.targ), i_edges |-> i_edges,
                       tau |-> res.tau,
                       seen |-> [seen EXCEPT !.activated = <<res.targ>>,
                                             !.records = i_edges,
                                             !.postLoopA = Append(Acur, res.targ)]]

\* run_ltm.py 100-133: _diffuse_one_round called with the list Acur at clock
\* t.  kind is how the call ends, A the list object after the call (the
\* caller's name is rebound to None on a stall, the list itself is left as
\* it was), i_edges and tau the rest of the returned triple, seen what the
\* call computed on the way.  A[-1] of an empty list raises IndexError.
diffuse_one_round_ltm(Acur, t) ==
    IF Acur = <<>>
    THEN [kind |-> "raise", error |-> "IndexError", A |-> Acur, i_edges |-> <<>>,
          tau |-> Num(0), seen |-> [NoRound EXCEPT !.preTime = t]]
    ELSE LET last_active == Acur[Len(Acur)]
             taus == CandidateTaus(Acur, last_active)
             res == LtmEval(taus, 1, Acur)
             seen == [NoRound EXCEPT !.pivot = last_active, !.taus = taus,
                                     !.evaluated = res.evaluated, !.preA = Acur,
                                     !.preTime = t, !.postLoopA = Acur]
         IN CASE res.kind = "raise" ->
                   [kind |-> "raise", error |-> "KeyError weight", A |-> Acur,
                    i_edges |-> <<>>, tau |-> Num(0), seen |-> seen]
              [] res.kind = "stall" ->
                   [kind |-> "stall", error |-> "", A |-> Acur,
                    i_edges |-> <<>>, tau |-> Num(0), seen |-> seen]
              [] res.kind = "activate" ->
                   LET i_edges == Records(res.true_actives, res.targ, FAdd(t, res.tau))
                   IN [kind |-> "activate", error |-> "",
                       A |-> Append(Acur, res.targ), i_edges |-> i_edges,
                       tau |-> res.tau,
                       seen |-> [seen EXCEPT !.activated = <<res.targ>>,
                                             !.records = i_edges,
                                             !.postLoopA = Append(Acur, res.targ)]]

\* run_ltm.py 93-98 with 100-133: one iteration of the loop of _diffuse_all
diffuse_round_ltm ==
    /\ pc = "loop"
    /\ mode = "ltm"
    /\ LET out == diffuse_one_round_ltm(A, time)
       IN /\ rounds' = rounds + 1
          /\ last' = out.seen
          /\ A' = out.A
          /\ CASE out.kind = "raise" ->
                    /\ pc' = "raised"
                    /\ error' = out.error
                    /\ UNCHANGED <<time, i_nodes>>
               [] out.kind = "stall" ->
                    /\ pc' = "returned"
                    /\ UNCHANGED <<time, i_nodes, error>>
               [] out.kind = "activate" ->
                    /\ time' = FAdd(time, out.tau)
                    /\ i_nodes' = i_nodes \o out.i_edges
                    /\ UNCHANGED <<pc, error>>
    /\ UNCHANGED <<inputs, gamma, r>>

\* run_ltm.py 100-133 called once more after _diffuse_all has returned, on
\* the list the run left and at the clock it stopped at: the round step is
\* an ordinary function of (G, L, A, time) and can be invoked again.  What
\* the call returns is committed the way line 97-98 would commit it.
reinvoke_round_ltm ==
    /\ pc = "returned"
    /\ mode = "ltm"
    /\ LET out == diffuse_one_round_ltm(A, time)
       IN /\ pc' = "reinvoked"
          /\ last' = out.seen
          /\ A' = out.A
          /\ error' = out.error
          /\ time' = IF out.kind = "activate" THEN FAdd(time, out.tau) ELSE time
          /\ i_nodes' = i_nodes \o out.i_edges
    /\ UNCHANGED <<inputs, gamma, r, rounds>>

-----------------------------------------------------------------------------
(* run_sir.py *)

\* run_sir.py 52-61: the exception SIR_model raises before the diffusion,
\* "" if none
SirValidation ==
    IF IsMulti(GKind) THEN "multiedges"
    ELSE IF NumNodes # LNodes THEN "dimensions"
    ELSE IF \E j \in 1..Len(seeds) : seeds[j] \notin Nodes THEN "seed"
    ELSE ""

\* run_sir.py 109-116: a neighbour whose weight lookup raises is passed over
SirTrueActives(actives, targ, tau) ==
    SelectSeq(actives, LAMBDA a : ~WeightRaises(a, targ) /\ FLe(EdgeTau(a, targ), tau))

\* A candidate loop in which every candidate after the first is tested
\* against a draw of its own (here 1/4 above or below the round's sample)
\* instead of the round's sample
RECURSIVE SirEvalOwnDraw(_, _, _, _, _)
SirEvalOwnDraw(taus, i, st, eventp, t0) ==
    IF i > Len(taus) THEN st
    ELSE LET targ == taus[i][1]
             tau == taus[i][2]
             true_actives == SirTrueActives(Actives(targ, st.A), targ, tau)
             beta == nodeBeta[targ]
             seen == [st EXCEPT !.evaluated = Append(@, targ)]
             draw == IF i = 1 THEN eventp
                     ELSE IF FracLt(eventp, <<1, 4>>) THEN FracAdd(eventp, <<3, 4>>)
                     ELSE FracAdd(eventp, <<-1, 4>>)
         IN IF beta = AbsentFrac THEN [seen EXCEPT !.raise = TRUE]
            ELSE IF FracLt(draw, <<beta[1] * Len(true_actives), beta[2]>>)
            THEN SirEvalOwnDraw(taus, i + 1,
                         [seen EXCEPT
                            !.act = @ \cup {targ},
                            !.A = @ \o SetToSeq(st.act \cup {targ}),
                            !.appended = @ \o SetToSeq(st.act \cup {targ}),
                            !.i_edges = @ \o Records(true_actives, targ, FAdd(t0, tau))],
                         eventp, t0)
            ELSE SirEvalOwnDraw(taus, i + 1, seen, eventp, t0)

\* run_sir.py 107-123: the candidate loop from position i on.  st carries
\* the list A, activated_nodes_of_this_round (act), i_edges, the targets
\* evaluated, the elements appended to A and whether line 117 raised.
RECURSIVE SirEval(_, _, _, _, _)
SirEval(taus, i, st, eventp, t0) ==
    IF i > Len(taus) THEN st
    ELSE LET targ == taus[i][1]
             tau == taus[i][2]
             true_actives == SirTrueActives(Actives(targ, st.A), targ, tau)
             beta == nodeBeta[targ]
             seen == [st EXCEPT !.evaluated = Append(@, targ)]
         IN IF beta = AbsentFrac THEN [seen EXCEPT !.raise = TRUE]
            ELSE IF FracLt(eventp, <<beta[1] * Len(true_actives), beta[2]>>)
            THEN SirEval(taus, i + 1,
                         [seen EXCEPT
                            !.act = @ \cup {targ},
                            !.A = @ \o SetToSeq(st.act \cup {targ}),
                            !.appended = @ \o SetToSeq(st.act \cup {targ}),
                            !.i_edges = @ \o Records(true_actives, targ, FAdd(t0, tau))],
                         eventp, t0)
            ELSE SirEval(taus, i + 1, seen, eventp, t0)

\* run_sir.py 125-128 when eventp < gamma: `for nd in A` walks the list by
\* index while A.remove(nd) shortens it
RECURSIVE Sweep(_, _, _)
Sweep(Acur, i, removed) ==
    IF i > Len(Acur) THEN [A |-> Acur, removed |-> removed]
    ELSE Sweep(RemoveFirst(Acur, Acur[i]), i + 1, Append(removed, Acur[i]))

\* run_sir.py 11-73: SIR_model up to the call of _diffuse_all (whose first
\* statements set i_nodes, r and time), or through the beta loop when
\* steps > 0.  `gamma` is the module global _diffuse_all will read.
SIR_model ==
    /\ pc = "call"
    /\ mode = "sir"
    /\ IF SirValidation # ""
       THEN /\ pc' = "raised"
            /\ error' = SirValidation
            /\ UNCHANGED <<A, gamma, nodeBeta>>
       ELSE \E steps \in StepsValues :
            /\ A' = seeds
            /\ CASE steps = Absent ->
                      /\ pc' = "raised"
                      /\ error' = "NameError"
                      /\ UNCHANGED <<gamma, nodeBeta>>
                 [] steps # Absent /\ steps <= 0 ->
                      /\ pc' = "loop"
                      /\ error' = ""
                      /\ gamma' \in Gammas \cup {AbsentFrac}
                      /\ UNCHANGED nodeBeta
                 [] steps > 0 ->
                      \E beta \in Betas :
                      /\ UNCHANGED gamma
                      /\ IF FracLt(<<1, 1>>, beta)
                         THEN /\ pc' = "raised"
                              /\ error' = "beta"
                              /\ nodeBeta' = [nodeBeta EXCEPT ![1] = beta]
                         ELSE /\ pc' = "returnedNone"
                              /\ error' = ""
                              /\ nodeBeta' = [n \in Nodes |-> beta]
    /\ UNCHANGED <<mode, GKind, LKind, LNodes, GW, LW, adjAsc, seeds, threshold,
                   time, i_nodes, r, rounds, last>>

\* run_sir.py 79-85 with 87-133: one iteration of the loop of _diffuse_all
diffuse_round_sir ==
    /\ pc = "loop"
    /\ mode = "sir"
    /\ rounds < MaxRounds
    /\ IF gamma = AbsentFrac
       THEN /\ pc' = "raised"
            /\ error' = "NameError"
            /\ UNCHANGED <<A, time, i_nodes, r, rounds, last>>
       ELSE IF A = <<>>
       THEN /\ pc' = "returned"
            /\ rounds' = rounds + 1
            /\ last' = [NoRound EXCEPT !.preTime = time, !.preR = r]
            /\ UNCHANGED <<A, time, i_nodes, r, error>>
       ELSE \E eventp \in Samples :
            LET last_active == A[Len(A)]
                taus == CandidateTaus(A, last_active)
                st == SirEval(taus, 1,
                              [A |-> A, act |-> {}, i_edges |-> <<>>, evaluated |-> <<>>,
                               appended |-> <<>>, raise |-> FALSE],
                              eventp, time)
                sw == IF FracLt(eventp, gamma) THEN Sweep(st.A, 1, <<>>)
                      ELSE [A |-> st.A, removed |-> <<>>]
                seen == [pivot |-> last_active, taus |-> taus,
                         evaluated |-> st.evaluated, activated |-> st.appended,
                         records |-> st.i_edges, preA |-> A, preTime |-> time,
                         eventp |-> eventp, removed |-> <<>>, postLoopA |-> st.A,
                         preR |-> r]
            IN /\ rounds' = rounds + 1
               /\ IF st.raise
                  THEN /\ pc' = "raised"
                       /\ error' = "KeyError beta"
                       /\ A' = st.A
                       /\ last' = seen
                       /\ UNCHANGED <<time, i_nodes, r>>
                  ELSE /\ A' = sw.A
                       /\ last' = [seen EXCEPT !.removed = sw.removed]
                       /\ IF Len(sw.A) = Len(A)
                          THEN /\ pc' = "raised"
                               /\ error' = "ValueError"
                               /\ UNCHANGED <<time, i_nodes, r>>
                          ELSE IF taus = <<>>
                          THEN /\ pc' = "raised"
                               /\ error' = "UnboundLocalError"
                               /\ UNCHANGED <<time, i_nodes, r>>
                          ELSE /\ time' = FAdd(time, taus[Len(taus)][2])
                               /\ i_nodes' = i_nodes \o st.i_edges
                               /\ r' = r \o sw.removed
                               /\ UNCHANGED <<pc, error>>
    /\ UNCHANGED <<inputs, gamma>>

-----------------------------------------------------------------------------
(* The inputs of a run *)

Kinds == {"Graph", "DiGraph", "MultiGraph", "MultiDiGraph"}

NoEdge == <<Absent, Absent>>

SeedSeqs ==
    {s \in UNION {[1..n -> Nodes] : n \in 1..MaxSeeds} : IsDupFree(s)}

Start ==
    /\ pc = "call"
    /\ error = ""
    /\ A = <<>>
    /\ time = Num(0)
    /\ i_nodes = <<>>
    /\ r = <<>>
    /\ rounds = 0
    /\ last = NoRound
    /\ gamma = AbsentFrac

Params ==
    \/ /\ mode = "ltm"
       /\ threshold \in Thresholds
       /\ nodeBeta = [n \in Nodes |-> AbsentFrac]
    \/ /\ mode = "sir"
       /\ threshold = AbsentFrac
       /\ \E b \in {AbsentFrac, <<1, 2>>} : nodeBeta = [n \in Nodes |-> b]

\* Two simple undirected graphs on the same nodes, seeds among the nodes
WellFormedInit ==
    /\ GKind = "Graph"
    /\ LKind = "Graph"
    /\ LNodes = NumNodes
    /\ \E ew \in [Pairs -> EdgeWeights \cup {NoEdge}] :
          /\ GW = [e \in Pairs |-> ew[e][1]]
          /\ LW = [e \in Pairs |-> ew[e][2]]
    /\ adjAsc \in BOOLEAN
    /\ seeds \in SeedSeqs
    /\ Params

\* Graphs of every class, with or without a node-count mismatch or a seed
\* outside the graph.  A directed graph has each edge in both directions.
AnyShapeInit ==
    /\ GKind \in Kinds
    /\ LKind \in Kinds
    /\ LNodes \in {NumNodes, NumNodes + 1}
    /\ \E ew \in [Pairs -> {NoEdge, <<1, 2>>}] :
          /\ GW = [e \in Pairs |-> ew[e][1]]
          /\ LW = [e \in Pairs |-> ew[e][2]]
    /\ adjAsc = TRUE
    /\ seeds \in {<<1>>, <<NumNodes + 1>>}
    /\ \/ /\ mode = "ltm"
          /\ threshold = <<1, 20>>
          /\ nodeBeta = [n \in Nodes |-> AbsentFrac]
       \/ /\ mode = "sir"
          /\ threshold = AbsentFrac
          /\ nodeBeta = [n \in Nodes |-> <<1, 2>>]

Init == Start /\ (WellFormedInit \/ AnyShapeInit)

Next ==
    \/ linear_threshold
    \/ diffuse_round_ltm
    \/ reinvoke_round_ltm
    \/ SIR_model
    \/ diffuse_round_sir

Spec == Init /\ [][Next]_vars

-----------------------------------------------------------------------------
(* Vocabulary of the claims *)

WellFormed ==
    /\ GKind = "Graph"
    /\ LKind = "Graph"
    /\ LNodes = NumNodes
    /\ \A j \in 1..Len(seeds) : seeds[j] \in Nodes

\* every weight that exists is positive
PositiveWeights ==
    \A e \in Pairs : GW[e] # Absent => GW[e] > 0 /\ (LW[e] = Absent \/ LW[e] > 0)

RoundRan == rounds > 0 /\ last.pivot # 0

CandidateNodes == {last.taus[j][1] : j \in 1..Len(last.taus)}

IsPrefix(s, t) == Len(s) <= Len(t) /\ \A j \in 1..Len(s) : s[j] = t[j]

-----------------------------------------------------------------------------
\* C1: in both modes, on well-formed inputs whose weights are all positive,
\* the clock of _diffuse_all is 0 until the first round has run, and the clock
\* after a round is never below the clock before it.
ClockStartsAtZeroAndNeverDecreases ==
    (WellFormed /\ PositiveWeights) =>
        /\ rounds = 0 => time = Num(0)
        /\ FLe(last.preTime, time)

\* a probabilistic run whose clock has advanced in two successive rounds
ClockAdvancedTwiceWitness ==
    /\ WellFormed
    /\ PositiveWeights
    /\ mode = "sir"
    /\ rounds >= 2
    /\ FLt(Num(0), last.preTime)
    /\ FLt(last.preTime, time)

\* a linear-threshold run whose clock has advanced
ClockAdvancedLtm ==
    /\ WellFormed
    /\ PositiveWeights
    /\ mode = "ltm"
    /\ FLt(last.preTime, time)

\* C2: a round activates at most one node, and the node it activates is the
\* last candidate it evaluated (no later candidate is evaluated or activated).
\* Stated for well-formed inputs with positive weights.
AtMostOneActivationPerRound ==
    (WellFormed /\ PositiveWeights /\ RoundRan) =>
        /\ Cardinality(Range(last.postLoopA) \ Range(last.preA)) <= 1
        /\ Len(last.activated) <= 1
        /\ last.activated # <<>> =>
              last.evaluated[Len(last.evaluated)] = last.activated[1]

\* C3: the candidates of a round are exactly the neighbours of the pivot in
\* G that are not in the Frontier and whose tau is defined (a quotient of
\* two weights that exist, the divisor not zero), in ascending order of tau,
\* and the round evaluates them in that order.
TauDefined(u, v) == ~WeightRaises(u, v) /\ GW[{u, v}] # 0

CandidatesExactAndAscending ==
    RoundRan =>
        /\ CandidateNodes =
              {nb \in NbrSet(last.pivot) \ Range(last.preA) : TauDefined(last.pivot, nb)}
        /\ \A i, j \in 1..Len(last.taus) :
              i < j => FLe(last.taus[i][2], last.taus[j][2])
        /\ IsPrefix(last.evaluated, [j \in 1..Len(last.taus) |-> last.taus[j][1]])

\* C4 (the part on re-entry): in the probabilistic mode a node that was in R
\* when a round began is not the pivot of that round, is not evaluated as a
\* candidate in it and is not appended to A by it.  Stated for well-formed
\* inputs with positive weights.
RemovedNeverComesBack ==
    (WellFormed /\ PositiveWeights /\ mode = "sir" /\ RoundRan) =>
        /\ last.pivot \notin Range(last.preR)
        /\ Range(last.evaluated) \cap Range(last.preR) = {}
        /\ Range(last.activated) \cap Range(last.preR) = {}

\* C5: with duplicate-free seeds the Frontier never holds a node twice.
\* Stated for well-formed inputs with positive weights.
FrontierHasNoDuplicates ==
    (WellFormed /\ PositiveWeights /\ IsDupFree(seeds)) => IsDupFree(A)

\* C6: the linear-threshold run on topology edges (1,2,w=2), (1,3,w=1),
\* distance edges (1,2,w=4), (1,3,w=2), seeds [1], threshold 0.05, the edges
\* added in the order listed: round 1 activates node 2 with the one record
\* (1,2,2.0); round 2 has pivot 2 and no candidate and stalls; _diffuse_all
\* returns [(1,2,2.0)]; node 3 is never in the Frontier and no round raises.
Scenario ==
    /\ WellFormed
    /\ mode = "ltm"
    /\ GW = [e \in Pairs |-> IF e = {1, 2} THEN 2 ELSE IF e = {1, 3} THEN 1 ELSE Absent]
    /\ LW = [e \in Pairs |-> IF e = {1, 2} THEN 4 ELSE IF e = {1, 3} THEN 2 ELSE Absent]
    /\ adjAsc
    /\ seeds = <<1>>
    /\ threshold = <<1, 20>>

ScenarioResult ==
    Scenario =>
        /\ 3 \notin Range(A)
        /\ rounds <= 2
        /\ pc = "raised" => (rounds = 0 /\ error = "NameError")
        /\ rounds = 1 =>
              /\ pc = "loop"
              /\ A = <<1, 2>>
              /\ last.records = << <<1, 2, Num(2)>> >>
              /\ time = Num(2)
        /\ rounds = 2 =>
              /\ pc \in {"returned", "reinvoked"}
              /\ last.pivot = 2
              /\ last.taus = <<>>
        /\ pc \in {"returned", "reinvoked"} =>
              (rounds = 2 /\ i_nodes = << <<1, 2, Num(2)>> >>)

ScenarioReturned == Scenario /\ pc = "returned"

\* C7: in the probabilistic mode, a round whose sample is below gamma ends
\* with an empty Frontier, every node that was in it at the sweep moved to r_.
\* Stated for well-formed inputs with positive weights.
SweepEmptiesFrontier ==
    (WellFormed /\ PositiveWeights /\ mode = "sir" /\ RoundRan /\ error # "KeyError beta"
       /\ FracLt(last.eventp, gamma)) =>
        /\ A = <<>>
        /\ Range(last.removed) = Range(last.postLoopA)

\* C8: on a well-formed input a missing distance or topology weight met
\* during a round never aborts the run.
MissingWeightNeverAborts ==
    (WellFormed /\ PositiveWeights) => ~(pc = "raised" /\ error = "KeyError weight")

\* C9: every tau admitted to a round's candidate list is a number >= 0 that
\* came from two weights that exist and are not zero.
AdmittedTausComeFromNonZeroWeights ==
    RoundRan =>
        \A j \in 1..Len(last.taus) :
            LET e == {last.pivot, last.taus[j][1]}
            IN /\ last.taus[j][2].k = "num"
               /\ last.taus[j][2].v >= 0
               /\ GW[e] \notin {Absent, 0}
               /\ LW[e] \notin {Absent, 0}

\* C10: an input in which either graph is a multigraph, either graph is
\* directed, the node counts differ or a seed is not a node of G never gets
\* past the entry point: no diffusion is entered and nothing is returned.
InvalidInput ==
    \/ IsMulti(GKind) \/ IsMulti(LKind)
    \/ IsDirected(GKind) \/ IsDirected(LKind)
    \/ LNodes # NumNodes
    \/ \E j \in 1..Len(seeds) : seeds[j] \notin Nodes

InvalidInputIsRejected ==
    InvalidInput =>
        /\ pc \in {"call", "raised"}
        /\ rounds = 0
        /\ i_nodes = <<>>
        /\ pc = "raised" => error \in {"multiedges", "dimensions", "undirected", "seed", "NameError"}

\* Supporting fact for C3: on well-formed inputs with positive weights the
\* candidate list is exact and ascending.
CandidatesExactOnPositiveWeights ==
    (WellFormed /\ PositiveWeights) => CandidatesExactAndAscending

-----------------------------------------------------------------------------
\* C11 (the threshold of the linear-threshold mode): a threshold below 0 or
\* above 1 never gets past linear_threshold: no diffusion is entered and
\* nothing is returned.
ThresholdOutOfRange ==
    FracLt(threshold, <<0, 1>>) \/ FracLt(<<1, 1>>, threshold)

OutOfRangeThresholdIsRejected ==
    (WellFormed /\ mode = "ltm" /\ ThresholdOutOfRange) =>
        /\ pc \in {"call", "raised"}
        /\ rounds = 0

\* C12: in the probabilistic mode a round that leaves the size of the
\* Frontier unchanged ends the run by returning (records, removed set), not
\* by an exception.  Stated for well-formed inputs with positive weights
\* whose nodes carry the attribute beta.
StallReturnsThePair ==
    (WellFormed /\ PositiveWeights /\ mode = "sir" /\ RoundRan
       /\ error # "KeyError beta" /\ Len(A) = Len(last.preA)) =>
        /\ pc = "returned"
        /\ error = ""

\* C13: when linear_threshold returns, no inactive node n next to a Frontier
\* member f would pass the activation test at the tau of the edge (f, n).
\* Stated for well-formed inputs with positive weights and a threshold in
\* [0, 1].
WouldActivate(n, f) ==
    /\ HasEdge(f, n)
    /\ \A a \in Range(Actives(n, A)) : ~WeightRaises(a, n)
    /\ ~FracLt(influence_sum(TrueActives(Actives(n, A), n, EdgeTau(f, n)), 1, n),
               threshold)

NothingLeftToActivate ==
    (WellFormed /\ PositiveWeights /\ ~ThresholdOutOfRange
       /\ mode = "ltm" /\ pc = "returned") =>
        ~\E n \in Nodes \ Range(A) : \E f \in Range(A) : WouldActivate(n, f)

\* C14: candidates of equal tau are in ascending order of node identifier,
\* whatever the order in which the edges were added to G.
TiesAreBrokenByIdentifier ==
    (WellFormed /\ PositiveWeights /\ RoundRan) =>
        \A i, j \in 1..Len(last.taus) :
            (i < j /\ last.taus[i][2] = last.taus[j][2]) =>
                last.taus[i][1] < last.taus[j][1]

\* C15: once a linear-threshold run has stalled, calling the round step
\* again on the Frontier and the clock the run stopped at reports a stall
\* again (no exception, nothing activated, no record) and leaves the
\* Frontier, the clock and the accumulated records as they were.
StallIsIdempotent ==
    [][(pc = "returned" /\ mode = "ltm") =>
          /\ pc' = "reinvoked"
          /\ error' = ""
          /\ last'.activated = <<>>
          /\ last'.records = <<>>
          /\ A' = A
          /\ time' = time
          /\ i_nodes' = i_nodes]_vars

StalledRunReinvoked ==
    /\ pc = "reinvoked"
    /\ mode = "ltm"
    /\ WellFormed
    /\ Len(A) > Len(seeds)
    /\ i_nodes # <<>>
    /\ last.taus # <<>>

\* The tau the last round's candidate list holds for node t
CandidateTau(t) ==
    last.taus[CHOOSE j \in 1..Len(last.taus) : last.taus[j][1] = t][2]

\* The targets the last round activated, and those activated before t
ActivatedTargets == Range(last.activated)

ActivatedBefore(t) ==
    LET first == CHOOSE j \in 1..Len(last.activated) :
                    /\ last.activated[j] = t
                    /\ \A k \in 1..(j - 1) : last.activated[k] # t
    IN {last.activated[k] : k \in 1..(first - 1)}

\* The Frontier members next to t, at the moment candidate t is evaluated,
\* whose own tau to t is defined and at most the candidate's
Eligible(t, frontier) ==
    {a \in frontier \cap NbrSet(t) :
        ~WeightRaises(a, t) /\ FLe(EdgeTau(a, t), CandidateTau(t))}

RecordsOf(t) == SelectSeq(last.records, LAMBDA rec : rec[2] = t)

\* C16: the records of an activated target are exactly one per Frontier
\* member that is adjacent to it and whose own tau to it is at most the
\* candidate's tau, each stamped with the clock before the round plus that
\* tau, and no record names any other node; in the linear-threshold mode a
\* candidate is activated exactly when the influence summed over that same
\* set reaches the threshold.
RecordsAreTheEligibleNeighbours ==
    RoundRan =>
        /\ \A j \in 1..Len(last.records) : last.records[j][2] \in ActivatedTargets
        /\ \A t \in ActivatedTargets :
              LET E == Eligible(t, Range(last.preA) \cup ActivatedBefore(t))
              IN /\ Range(RecordsOf(t)) =
                       {<<a, t, FAdd(last.preTime, CandidateTau(t))>> : a \in E}
                 /\ Len(RecordsOf(t)) = Cardinality(E)
        /\ (mode = "ltm" /\ error = "") =>
              \A t \in Range(last.evaluated) :
                 (t \in ActivatedTargets) <=>
                    ~FracLt(influence_sum(SetToSeq(Eligible(t, Range(last.preA))), 1, t),
                            threshold)

\* A round that activated a target next to two Frontier members, one of
\* them left out because its own tau exceeds the candidate's
LateNeighbourLeftOut ==
    /\ RoundRan
    /\ WellFormed
    /\ PositiveWeights
    /\ \E t \in ActivatedTargets :
          /\ Cardinality(Range(last.preA) \cap NbrSet(t)) = 2
          /\ Len(RecordsOf(t)) = 1

\* C17: a round after which the run goes on has activated a candidate, has
\* advanced the clock by exactly that candidate's tau, and every record of
\* the round carries the clock before the round plus that tau.  Stated for
\* well-formed inputs with positive weights.
ClockAdvancesByWinningTau ==
    (WellFormed /\ PositiveWeights /\ RoundRan /\ pc = "loop") =>
        \E t \in ActivatedTargets :
            /\ time = FAdd(last.preTime, CandidateTau(t))
            /\ \A j \in 1..Len(last.records) :
                  last.records[j][3] = FAdd(last.preTime, CandidateTau(t))

\* C18: in the linear-threshold mode each eligible active neighbour of a
\* target t weighs 1 / degree(t) in the activation test, whichever endpoint
\* of the edge is t: a candidate is activated exactly when the number of its
\* eligible active neighbours divided by its own degree reaches the
\* threshold.  Stated for well-formed inputs with positive weights and a
\* threshold in [0, 1].
InfluenceIsOneOverTargetDegree ==
    (mode = "ltm" /\ WellFormed /\ PositiveWeights /\ ~ThresholdOutOfRange
       /\ RoundRan /\ error = "") =>
        \A t \in Range(last.evaluated) :
            (t \in ActivatedTargets) <=>
               ~FracLt(<<Cardinality(Eligible(t, Range(last.preA))), degree(t)>>,
                       threshold)

\* The position of node t in the last round's candidate list, and the
\* Frontier as it stood when candidate t was evaluated
TausIndex(t) == CHOOSE j \in 1..Len(last.taus) : last.taus[j][1] = t

FrontierAt(t) ==
    Range(last.preA) \cup {u \in ActivatedTargets : TausIndex(u) < TausIndex(t)}

\* C19: a round of the SIR mode draws one sample, and that one value decides
\* every candidate of the round (a candidate is activated exactly when the
\* sample is below beta times the number of its eligible active neighbours)
\* and the recovery sweep of the round (nodes are removed exactly when the
\* sample is below gamma).
OneSamplePerRound ==
    (mode = "sir" /\ RoundRan /\ error # "KeyError beta") =>
        /\ last.eventp \in Samples
        /\ \A t \in Range(last.evaluated) :
              (t \in ActivatedTargets) <=>
                 FracLt(last.eventp,
                        <<nodeBeta[t][1] * Cardinality(Eligible(t, FrontierAt(t))),
                          nodeBeta[t][2]>>)
        /\ (last.removed # <<>>) <=> FracLt(last.eventp, gamma)

\* A round in which the one sample decided two candidates and the sweep
TwoCandidatesAndSweepOnOneSample ==
    /\ mode = "sir"
    /\ RoundRan
    /\ WellFormed
    /\ PositiveWeights
    /\ error # "KeyError beta"
    /\ Len(last.evaluated) = 2
    /\ ActivatedTargets # {}
    /\ last.removed # <<>>

\* C20: a linear-threshold run started from a duplicate-free seed sequence
\* ends within |V| - |seeds| + 1 rounds.  While the loop is running the
\* Frontier is duplicate-free, holds only nodes of the graph and has grown by
\* one node per round; every round after which the loop goes on has added
\* exactly one node that was not in the Frontier; so no later round than
\* round |V| - |seeds| + 1 is ever started, and a run that has not been
\* aborted by an exception has stalled by then.
LtmEndsWithinBound ==
    (mode = "ltm" /\ IsDupFree(seeds)) =>
        /\ rounds <= NumNodes - Len(seeds) + 1
        /\ pc = "loop" =>
              /\ IsDupFree(A)
              /\ Range(A) \subseteq Nodes
              /\ Len(A) = Len(seeds) + rounds
        /\ (pc = "loop" /\ RoundRan) =>
              /\ Len(last.activated) = 1
              /\ last.activated[1] \notin Range(last.preA)
              /\ A = Append(last.preA, last.activated[1])
        /\ (rounds = NumNodes - Len(seeds) + 1) => pc \in {"returned", "reinvoked"}

\* A run from one seed that activated every other node, one per round, and
\* stalled in round |V|
StalledInTheLastPossibleRound ==
    /\ mode = "ltm"
    /\ WellFormed
    /\ Len(seeds) = 1
    /\ pc = "returned"
    /\ rounds = NumNodes
    /\ Range(A) = Nodes

====
